---- MODULE Spec2Model ----
(***************************************************************************)
(* Model of the two learners of STMLearn:                                  *)
(*   LStarMealyLearner  (src/stmlearn/learners/_lstar_mealy_learner.py)    *)
(*   TTTMealyLearner    (src/stmlearn/learners/_ttt_mealy_learner.py)      *)
(* The teacher, the Mealy machine type and NotifierSet are not part of the *)
(* listed sources; they are modelled from the specification and from the   *)
(* way the learners use them (query is annotated '-> str | None': a        *)
(* membership answer is ONE output, the last one, None for the empty word).*)
(***************************************************************************)
EXTENDS Integers, Sequences, FiniteSets, TLC

VARIABLES
    sul,            \* the system under learning (fixed after Init)
    S, E,           \* observation table: access sequences, suffixes
    cS, cE,         \* S.change_counter, E.change_counter
    T,              \* self.T, the membership cache of the learner
    watch, mem,     \* self._watch, self._mem of the memoization decorators
    pc,             \* position of run(): check, step, build, eq, done, error
    hypothesis,     \* local 'hypothesis' of run()
    equivalent,     \* local 'equivalent' of run()
    counterexample, \* local 'counterexample' of run()
    returned,       \* the value run() returned
    stale,          \* a memoized call has returned an outdated value
    tttS,           \* TTT: self.S, the dict access sequence -> State, in
                    \* insertion order
    edges,          \* TTT: the edges of the State objects,
                    \* <<state, symbol>> -> <<output, target>>
    DTree,          \* TTT: self.DTree, the node at each path of child keys
    orderA,         \* TTT: the order in which the set self.A is iterated
    tpc,            \* TTT: position of run(): construct, pass, span, eq,
                    \* done, error
    items,          \* TTT: list(self.S.items()) of the pass that is running
    idx,            \* TTT: position of the pass in product(items, A)
    nSeen,          \* TTT: local 'n' of construct_hypothesis
    tttHypothesis,  \* TTT: the hypothesis construct_hypothesis returned
    tttCounterexample \* TTT: the counterexample being processed

lstarVars == <<S, E, cS, cE, T, watch, mem, pc, hypothesis, equivalent,
               counterexample, returned, stale>>

tttVars == <<tttS, edges, DTree, orderA, tpc, items, idx, nSeen,
             tttHypothesis, tttCounterexample>>

vars == <<sul, lstarVars, tttVars>>

-----------------------------------------------------------------------------
(* Bounds of the model *)

\* largest number of states of the systems under learning that Init draws
MaxSulStates == 3

\* longest word of S in the tables that load_checkpoint restores
MaxTableLen == 2

\* the teacher of the TTT learner returns counterexamples at most this much
\* longer than the shortest one
TttCexSlack == 0

-----------------------------------------------------------------------------
(* Symbols, words, the system under learning *)

SymSeq == <<"a", "b">>
Out == {"0", "1"}
None == "None"
\* Python's None where a machine or a word is expected
NoHyp == [none |-> TRUE]
NoWord == <<None>>

\* Teacher.get_alphabet()
Alphabet == sul.sym

\* self.A: the alphabet as a set of one-element words (line 102)
A == {<<x>> : x \in Alphabet}

RECURSIVE WordsOfLen(_, _)
WordsOfLen(syms, n) ==
    IF n = 0 THEN {<<>>}
    ELSE {Append(w, x) : w \in WordsOfLen(syms, n - 1), x \in syms}

Words(syms, n) == UNION {WordsOfLen(syms, k) : k \in 0 .. n}

Prefix(w, i) == SubSeq(w, 1, i)

\* state of Mealy machine m reached from q on word w
RECURSIVE RunFrom(_, _, _)
RunFrom(m, q, w) ==
    IF w = <<>> THEN q
    ELSE RunFrom(m, m.delta[<<q, Head(w)>>], Tail(w))

\* MealyMachine.process_input after reset(): the last output, None for ()
SulOut(m, w) ==
    IF w = <<>> THEN None
    ELSE m.lam[<<RunFrom(m, 1, Prefix(w, Len(w) - 1)), w[Len(w)]>>]

\* Teacher.member_query(word)
MemberQuery(w) == SulOut(sul, w)

\* the i-th transition of a machine with k symbols, states first
TransAt(i, k) == <<((i - 1) \div k) + 1, SymSeq[((i - 1) % k) + 1]>>

RECURSIVE MaxTarget(_, _, _)
MaxTarget(d, i, k) ==
    IF i = 0 THEN 1
    ELSE LET p == MaxTarget(d, i - 1, k)
             t == d[TransAt(i, k)]
         IN  IF t > p THEN t ELSE p

\* the states are numbered in the order in which they are first reached, and
\* all n of them are reached
Canonical(d, n, k) ==
    /\ \A i \in 1 .. (n * k) :
          /\ TransAt(i, k)[1] <= MaxTarget(d, i - 1, k)
          /\ d[TransAt(i, k)] <= MaxTarget(d, i - 1, k) + 1
    /\ MaxTarget(d, n * k, k) = n

SymsOf(k) == {SymSeq[i] : i \in 1 .. k}

\* every Mealy machine with n states, all reachable, over the first k symbols
\* (up to the names of the states)
Machines(n, k) ==
    {[sym |-> SymsOf(k), states |-> 1 .. n, delta |-> d, lam |-> l] :
        d \in {f \in [(1 .. n) \X SymsOf(k) -> 1 .. n] : Canonical(f, n, k)},
        l \in [(1 .. n) \X SymsOf(k) -> Out]}

\* the machines with n states over {a, b} in which a walks through the states
\* and b either stays everywhere or resets everywhere
Lassos(n) ==
    {[sym |-> SymsOf(2), states |-> 1 .. n, delta |-> d, lam |-> l] :
        d \in {f \in [(1 .. n) \X SymsOf(2) -> 1 .. n] :
                  /\ \A q \in 1 .. (n - 1) : f[<<q, "a">>] = q + 1
                  /\ \/ \A q \in 1 .. n : f[<<q, "b">>] = q
                     \/ \A q \in 1 .. n : f[<<q, "b">>] = 1},
        l \in [(1 .. n) \X SymsOf(2) -> Out]}

\* the systems under learning that Init draws
Suls ==
    UNION {Machines(n, k) : n \in 1 .. (MaxSulStates - 1), k \in 1 .. 2}
    \cup Machines(MaxSulStates, 1) \cup Lassos(MaxSulStates)

\* longest counterexample the teacher returns: two different machines with h
\* and n states differ on a word shorter than h + n
MaxCexLen == 2 * MaxSulStates - 2

-----------------------------------------------------------------------------
(* The learner's state threaded through the memoized calls *)

Put(f, k, v) == [x \in DOMAIN f \cup {k} |-> IF x = k THEN v ELSE f[x]]

EmptyDict == [x \in {} |-> x]

Cur == [S |-> S, E |-> E, cS |-> cS, cE |-> cE, watch |-> watch,
        mem |-> mem, err |-> FALSE, stale |-> stale]

\* NotifierSet.add on S and on E
AddS(st, w) == [st EXCEPT !.S = @ \cup {w}, !.cS = @ + 1]
AddE(st, w) == [st EXCEPT !.E = @ \cup {w}, !.cE = @ + 1]

\* LStarMealyLearner.query: the answer of the teacher, T is not consulted
query(w) == MemberQuery(w)

-----------------------------------------------------------------------------
(* The table recomputed from S and E, without any cache *)

\* the row of s over the suffixes Es, as the teacher answers now
RowOver(s, Es) == [e \in Es |-> query(s \o e)]

\* S.A united with A
SAOf(Ss) == {s \o a : s \in Ss, a \in A} \cup A

\* every row of S.A is the row of a word of S
TableClosed(Ss, Es) ==
    \A t \in SAOf(Ss) : \E s \in Ss : RowOver(t, Es) = RowOver(s, Es)

\* words of S with equal rows have equal rows after every symbol
TableConsistent(Ss, Es) ==
    \A s1 \in Ss, s2 \in Ss :
        RowOver(s1, Es) = RowOver(s2, Es) =>
            \A a \in A : RowOver(s1 \o a, Es) = RowOver(s2 \o a, Es)

-----------------------------------------------------------------------------
(* The memoization decorators *)

\* depends_on_S, lines 25-31: the wrapper is entered, the watch entry is made
EnterDependsOnS(st, name) ==
    [st EXCEPT !.watch = IF name \in DOMAIN @ THEN @ ELSE Put(@, name, 0)]

\* depends_on_S, line 33: last_seen != change_counter
MissDependsOnS(st, name) == st.watch[name] # st.cS

\* depends_on_S, lines 34-37: r = [st, v] is what the decorated body gave,
\* change_counter was read when the wrapper was entered
StoreDependsOnS(name, change_counter, r) ==
    [st |-> [r.st EXCEPT !.mem = Put(@, name, r.v),
                         !.watch = Put(@, name, change_counter)],
     v |-> r.v]

\* depends_on_S, lines 38-39: the cached value is returned. fresh is what the
\* body gives on the current S; stale records that the two differ (it is no
\* part of the program)
HitDependsOnS(st, name, fresh) ==
    [st |-> [st EXCEPT !.stale = @ \/ (st.mem[name] # fresh)],
     v |-> st.mem[name]]

\* the condition under which depends_on_S_E throws its cache away (line 57)
InvalidatedOnlyE(last_seen, change_counter) ==
    last_seen[2] # change_counter[2]

InvalidatedBoth(last_seen, change_counter) ==
    (last_seen[1] # change_counter[1]) /\ (last_seen[2] # change_counter[2])

Invalidated(last_seen, change_counter) ==
    (last_seen[1] # change_counter[1]) \/ (last_seen[2] # change_counter[2])

\* depends_on_S_E, lines 48-60: the wrapper is entered, the watch entry is
\* made and the cache is thrown away when S or E has changed
EnterDependsOnSE(st, name) ==
    LET change_counter == <<st.cS, st.cE>>
        w1 == IF name \in DOMAIN st.watch THEN st.watch
              ELSE Put(st.watch, name, <<-1, -1>>)
        last_seen == w1[name]
    IN  IF Invalidated(last_seen, change_counter)
        THEN [st EXCEPT !.watch = Put(w1, name, change_counter),
                        !.mem = Put(@, name, EmptyDict)]
        ELSE [st EXCEPT !.watch = w1]

\* depends_on_S_E, line 62: args in self._mem[name].keys()
HitsDependsOnSE(st, name, args) == args \in DOMAIN st.mem[name]

\* depends_on_S_E, line 63: the cached value is returned. fresh is the value
\* recomputed without caches; stale records that the two differ
HitDependsOnSE(st, name, args, fresh) ==
    [st |-> [st EXCEPT !.stale = @ \/ (st.mem[name][args] # fresh)],
     v |-> st.mem[name][args]]

\* depends_on_S_E, lines 65-67: r = [st, v] is what the decorated body gave
StoreDependsOnSE(name, args, r) ==
    [st |-> [r.st EXCEPT !.mem[name] = Put(@, args, r.v)], v |-> r.v]

-----------------------------------------------------------------------------
(* The derived sets and verdicts of the observation table *)

\* body of _SA: S.A united with A
SA_body(st) == [st |-> st, v |-> {s \o a : s \in st.S, a \in A} \cup A]

SA(st) ==
    LET Wrapped(st1) ==
            IF MissDependsOnS(st1, "_SA")
            THEN StoreDependsOnS("_SA", st1.cS, SA_body(st1))
            ELSE HitDependsOnS(st1, "_SA", SAOf(st1.S))
    IN  Wrapped(EnterDependsOnS(st, "_SA"))

\* body of _SUSA
SUSA_body(st) ==
    LET United(r) == [st |-> r.st, v |-> r.st.S \cup r.v]
    IN  United(SA(st))

SUSA(st) ==
    LET Wrapped(st1) ==
            IF MissDependsOnS(st1, "_SUSA")
            THEN StoreDependsOnS("_SUSA", st1.cS, SUSA_body(st1))
            ELSE HitDependsOnS(st1, "_SUSA", st1.S \cup SAOf(st1.S))
    IN  Wrapped(EnterDependsOnS(st, "_SUSA"))

\* body of _get_row; a raise sets err
get_row_body(st, args) ==
    LET RowIn(r) ==
            IF args[1] \notin r.v
            THEN [st |-> [r.st EXCEPT !.err = TRUE], v |-> EmptyDict]
            ELSE [st |-> r.st, v |-> [e \in r.st.E |-> query(args[1] \o e)]]
    IN  RowIn(SUSA(st))

FreshRow(st, args) == RowOver(args[1], st.E)

GetRow(st, s) ==
    LET Wrapped(st1) ==
            IF HitsDependsOnSE(st1, "_get_row", <<s>>)
            THEN HitDependsOnSE(st1, "_get_row", <<s>>, FreshRow(st1, <<s>>))
            ELSE StoreDependsOnSE("_get_row", <<s>>, get_row_body(st1, <<s>>))
    IN  Wrapped(EnterDependsOnSE(st, "_get_row"))

\* [self._get_row(w) for w in W]: [st, v], v maps each w of W to its row.
\* S and E do not change between the calls, so the wrapper throws the cache
\* away in the first call at most, and _SUSA is computed in the first miss at
\* most: the calls are taken together
GetRows(st, W) ==
    LET Taken(st1, r, cached, old) ==
            LET rows == [w \in W |->
                           IF w \in cached THEN old[<<w>>]
                           ELSE IF w \notin r.v THEN EmptyDict
                           ELSE [e \in st1.E |-> query(w \o e)]]
            IN  [st |-> [r.st EXCEPT
                           !.mem["_get_row"] =
                               [k \in DOMAIN old \cup {<<w>> : w \in W \ cached}
                                   |-> IF k \in DOMAIN old THEN old[k]
                                       ELSE rows[k[1]]],
                           !.stale = @ \/ (\E w \in cached :
                                              old[<<w>>] # FreshRow(st1, <<w>>)),
                           !.err = @ \/ (\E w \in W \ cached : w \notin r.v)],
                 v |-> rows]
        Missed(st1, cached) ==
            Taken(st1,
                  IF W \ cached = {} THEN [st |-> st1, v |-> {}] ELSE SUSA(st1),
                  cached, st1.mem["_get_row"])
        Entered(st1) ==
            Missed(st1, {w \in W : HitsDependsOnSE(st1, "_get_row", <<w>>)})
    IN  IF W = {} THEN [st |-> st, v |-> EmptyDict]
        ELSE Entered(EnterDependsOnSE(st, "_get_row"))

\* body of _is_closed
is_closed_body(st, args) ==
    LET Verdict(r1, r2, r3) ==
            [st |-> r3.st,
             v |-> \A t \in r2.v : r3.v[t] \in {r1.v[s] : s \in st.S}]
        WithSA(r1, r2) == Verdict(r1, r2, GetRows(r2.st, r2.v))
        WithRows(r1) == WithSA(r1, SA(r1.st))
    IN  WithRows(GetRows(st, st.S))

FreshClosed(st, args) == TableClosed(st.S, st.E)

IsClosed(st) ==
    LET Wrapped(st1) ==
            IF HitsDependsOnSE(st1, "_is_closed", <<>>)
            THEN HitDependsOnSE(st1, "_is_closed", <<>>, FreshClosed(st1, <<>>))
            ELSE StoreDependsOnSE("_is_closed", <<>>, is_closed_body(st1, <<>>))
    IN  Wrapped(EnterDependsOnSE(st, "_is_closed"))

\* combinations(self.S, 2)
Combinations2(X) == {p \in {{x, y} : x \in X, y \in X} : Cardinality(p) = 2}

\* the list eqrows of _is_consistent and of step: [st, v], v the pairs of
\* different words of S with equal rows
EqRows(st) ==
    LET Pairs(r1) ==
            [st |-> r1.st,
             v |-> {p \in Combinations2(st.S) :
                       \A s1 \in p, s2 \in p : r1.v[s1] = r1.v[s2]}]
    IN  Pairs(IF Cardinality(st.S) >= 2 THEN GetRows(st, st.S)
              ELSE [st |-> st, v |-> EmptyDict])

\* body of _is_consistent
is_consistent_body(st, args) ==
    LET Verdict(r1, r2) ==
            [st |-> r2.st,
             v |-> \A p \in r1.v : \A s1 \in p, s2 \in p : \A a \in A :
                       r2.v[s1 \o a] = r2.v[s2 \o a]]
        WithEqRows(r1) ==
            Verdict(r1, GetRows(r1.st, {s \o a : s \in UNION r1.v, a \in A}))
    IN  WithEqRows(EqRows(st))

FreshConsistent(st, args) == TableConsistent(st.S, st.E)

IsConsistent(st) ==
    LET Wrapped(st1) ==
            IF HitsDependsOnSE(st1, "_is_consistent", <<>>)
            THEN HitDependsOnSE(st1, "_is_consistent", <<>>,
                                FreshConsistent(st1, <<>>))
            ELSE StoreDependsOnSE("_is_consistent", <<>>,
                                  is_consistent_body(st1, <<>>))
    IN  Wrapped(EnterDependsOnSE(st, "_is_consistent"))

-----------------------------------------------------------------------------
(* step *)

\* a set in the order in which the program iterates over it (some fixed order)
RECURSIVE IterOrder(_)
IterOrder(X) ==
    IF X = {} THEN <<>>
    ELSE LET x == CHOOSE y \in X : TRUE IN <<x>> \o IterOrder(X \ {x})

\* product(X, Y) of two sequences of words, already concatenated: x-major
RECURSIVE Product(_, _)
Product(xs, ys) ==
    IF xs = <<>> THEN <<>>
    ELSE [i \in 1 .. Len(ys) |-> Head(xs) \o ys[i]] \o Product(Tail(xs), ys)

\* step, lines 271-289: the words a.e that the search can add to E. The pair
\* of eqrows that is tried first and the order of AE depend on the iteration
\* order of the sets; the search stops at the first differing (a, e) of the
\* first pair that has one.
\* step, line 282: if T_s1ae != T_s2ae
DiffersFromItself(x, y) == x # x

Differs(x, y) == x # y

ConsistencyFixes(st, eqrows) ==
    {ae \in {a \o e : a \in A, e \in st.E} :
        \E p \in eqrows : \E s1 \in p, s2 \in p :
            Differs(query(s1 \o ae), query(s2 \o ae))}

\* step, lines 300-303: the loop over product(S, A); no break after an add
RECURSIVE CloseLoop(_, _, _, _)
CloseLoop(st, S_rows, SAseq, i) ==
    IF i > Len(SAseq) THEN st
    ELSE LET Added(r) ==
                 IF r.v \notin S_rows THEN AddS(r.st, SAseq[i]) ELSE r.st
         IN  CloseLoop(Added(GetRow(st, SAseq[i])), S_rows, SAseq, i + 1)

\* step, lines 294-303
CloseBranchSkip(st) == st

CloseBranch(st) ==
    LET Loop(r1) ==
            CloseLoop(r1.st, {r1.v[s] : s \in st.S},
                      Product(IterOrder(st.S), IterOrder(A)), 1)
    IN  Loop(GetRows(st, st.S))

\* step, lines 263-264: the two verdicts; [st, consistent, closed]
StepVerdicts(st) ==
    LET Both(r1, r2) == [st |-> r2.st, consistent |-> r1.v, closed |-> r2.v]
        Second(r1) == Both(r1, IsClosed(r1.st))
    IN  Second(IsConsistent(st))

\* the states step can end in, given the state it starts in
StepResults(st) ==
    LET Closing(v, afterE) ==
            IF v.closed THEN afterE ELSE {CloseBranch(x) : x \in afterE}
        Fixing(v, r, fixes) ==
            Closing(v, IF v.consistent THEN {v.st}
                       ELSE IF fixes = {} THEN {r.st}
                       ELSE {AddE(r.st, ae) : ae \in fixes})
        Searching(v, r) == Fixing(v, r, ConsistencyFixes(r.st, r.v))
        Decided(v) == Searching(v, EqRows(v.st))
    IN  Decided(StepVerdicts(st))

-----------------------------------------------------------------------------
(* build_dfa *)

\* the edges build_dfa can add for state row r and symbol x: one per s of S
\* with that row whose successor row is a state; add_edge keeps the first and
\* the bare except swallows every later one
EdgeCandidatesSelf(st, rows, rowsSA, state_rows, r, x) ==
    {<<query(s \o <<x>>), rows[s]>> :
        s \in {y \in st.S : rows[y] = r /\ rowsSA[y \o <<x>>] \in state_rows}}

EdgeCandidates(st, rows, rowsSA, state_rows, r, x) ==
    {<<query(s \o <<x>>), rowsSA[s \o <<x>>]>> :
        s \in {y \in st.S : rows[y] = r /\ rowsSA[y \o <<x>>] \in state_rows}}

\* the functions on dom that take at each key one of the values C[key]
RECURSIVE Choices(_, _)
Choices(dom, C) ==
    IF dom = {} THEN {EmptyDict}
    ELSE LET k == CHOOSE x \in dom : TRUE
         IN  {Put(f, k, v) : f \in Choices(dom \ {k}, C), v \in C[k]}

\* build_dfa: [st, v], v the set of machines it can return (which s of S comes
\* first among those with the same row depends on the iteration order of S)
BuildDfa(st) ==
    LET Machine(r0, r2, state_rows, C) ==
            [st |-> r2.st,
             v |-> {[init |-> r0.v, states |-> state_rows, edges |-> f] :
                      f \in Choices({rx \in state_rows \X Alphabet :
                                        C[rx] # {}}, C)}]
        Edges(r1, r0, r2, state_rows) ==
            Machine(r0, r2, state_rows,
                    [rx \in state_rows \X Alphabet |->
                        EdgeCandidates(st, r1.v, r2.v, state_rows,
                                       rx[1], rx[2])])
        Successors(r1, r0, state_rows) ==
            Edges(r1, r0, GetRows(r0.st, {s \o a : s \in st.S, a \in A}),
                  state_rows)
        Initial(r1) ==
            Successors(r1, GetRow(r1.st, <<>>), {r1.v[s] : s \in st.S})
    IN  Initial(GetRows(st, st.S))

-----------------------------------------------------------------------------
(* The teacher's equivalence oracle and the Mealy machines it runs *)

\* MealyMachine.process_input of a hypothesis from state r, every output kept
RECURSIVE HypOutputs(_, _, _)
HypOutputs(h, r, w) ==
    IF w = <<>> THEN <<>>
    ELSE IF <<r, Head(w)>> \notin DOMAIN h.edges THEN <<"invalid_input">>
    ELSE <<h.edges[<<r, Head(w)>>][1]>> \o
         HypOutputs(h, h.edges[<<r, Head(w)>>][2], Tail(w))

RECURSIVE SulOutputs(_, _, _)
SulOutputs(m, q, w) ==
    IF w = <<>> THEN <<>>
    ELSE <<m.lam[<<q, Head(w)>>]>> \o
         SulOutputs(m, m.delta[<<q, Head(w)>>], Tail(w))

\* the words a sound teacher may return for hypothesis h
Counterexamples(h) ==
    {w \in Words(Alphabet, MaxCexLen) \ {<<>>} :
        HypOutputs(h, h.init, w) # SulOutputs(sul, 1, w)}

\* Teacher.equivalence_query: the possible answers <<equivalent, counterexample>>
EquivalenceQuery(h) ==
    IF Counterexamples(h) = {} THEN {<<TRUE, NoWord>>}
    ELSE {<<FALSE, w>> : w \in Counterexamples(h)}

\* run, line 387: range(1, len(counterexample) + 1)
PrefixLengthsShort(w) == [i \in 1 .. (Len(w) - 1) |-> i]

PrefixLengthsFirst(w) == <<1>>

PrefixLengths(w) == [i \in 1 .. Len(w) |-> i]

\* run, line 388: counterexample[0:i]
CexSliceLate(w, i) == SubSeq(w, 1, IF i + 1 > Len(w) THEN Len(w) ELSE i + 1)

CexSlice(w, i) == SubSeq(w, 1, i)

\* run, lines 387-388: for i in lens: self.S.add(counterexample[0:i])
RECURSIVE Integrate(_, _, _)
Integrate(st, w, lens) ==
    IF lens = <<>> THEN st
    ELSE Integrate(AddS(st, CexSlice(w, Head(lens))), w, Tail(lens))

\* run, lines 376-377: if equivalent: return hypothesis
ReturnsAlways(eq) == TRUE

Returns(eq) == eq

-----------------------------------------------------------------------------
(* run *)

\* LStarMealyLearner.__init__
LStarInit ==
    /\ S = {<<>>}
    /\ cS = 1
    /\ E = A
    /\ cE = Cardinality(A)
    /\ T = EmptyDict
    /\ watch = EmptyDict
    /\ mem = EmptyDict
    /\ pc = "check"
    /\ hypothesis = NoHyp
    /\ equivalent = FALSE
    /\ counterexample = NoWord
    /\ returned = NoHyp
    /\ stale = FALSE

\* writes the threaded learner state back
Store(st) ==
    /\ S' = st.S
    /\ E' = st.E
    /\ cS' = st.cS
    /\ cE' = st.cE
    /\ watch' = st.watch
    /\ mem' = st.mem
    /\ stale' = st.stale

\* run, line 355: self._is_closed() and self._is_consistent()
LoopCondition(st) ==
    LET Second(r1) == IF r1.v THEN IsConsistent(r1.st) ELSE r1
    IN  Second(IsClosed(st))

\* run, line 355
Check ==
    /\ pc = "check"
    /\ \E r \in {LoopCondition(Cur)} :
          /\ Store(r.st)
          /\ pc' = IF r.st.err THEN "error" ELSE IF r.v THEN "build" ELSE "step"
    /\ UNCHANGED <<sul, T, hypothesis, equivalent, counterexample, returned>>
    /\ UNCHANGED tttVars

\* run, line 358
Step ==
    /\ pc = "step"
    /\ \E st \in StepResults(Cur) :
          /\ Store(st)
          /\ pc' = IF st.err THEN "error" ELSE "check"
    /\ UNCHANGED <<sul, T, hypothesis, equivalent, counterexample, returned>>
    /\ UNCHANGED tttVars

\* run, line 364
Build ==
    /\ pc = "build"
    /\ \E r \in {BuildDfa(Cur)} :
          /\ Store(r.st)
          /\ \E h \in r.v : hypothesis' = h
          /\ pc' = IF r.st.err THEN "error" ELSE "eq"
    /\ UNCHANGED <<sul, T, equivalent, counterexample, returned>>
    /\ UNCHANGED tttVars

\* run, lines 374-377: the teacher accepts the hypothesis
Return ==
    /\ pc = "eq"
    /\ \E ans \in EquivalenceQuery(hypothesis) :
          /\ Returns(ans[1])
          /\ equivalent' = ans[1]
          /\ counterexample' = ans[2]
          /\ returned' = hypothesis
          /\ pc' = "done"
    /\ UNCHANGED <<sul, S, E, cS, cE, T, watch, mem, hypothesis, stale>>
    /\ UNCHANGED tttVars

\* run, lines 374-388: the teacher answers with a counterexample
Refine ==
    /\ pc = "eq"
    /\ \E ans \in EquivalenceQuery(hypothesis) :
          /\ ~Returns(ans[1])
          /\ equivalent' = ans[1]
          /\ counterexample' = ans[2]
          /\ Store(Integrate(Cur, ans[2], PrefixLengths(ans[2])))
          /\ pc' = "check"
    /\ UNCHANGED <<sul, T, hypothesis, returned>>
    /\ UNCHANGED tttVars

-----------------------------------------------------------------------------
(* Mealy machines as values: the states a machine reaches, its behaviour *)

\* MealyMachine.get_states(): the states reachable from the initial state
RECURSIVE HypClosure(_, _)
HypClosure(h, X) ==
    LET Y == X \cup {h.edges[rx][2] :
                       rx \in {z \in X \X Alphabet : z \in DOMAIN h.edges}}
    IN  IF Y = X THEN X ELSE HypClosure(h, Y)

HypStates(h) == HypClosure(h, {h.init})

\* the pairs (state of h, state of the SUL) reached by the same word
RECURSIVE PairClosure(_, _)
PairClosure(h, X) ==
    LET Y == X \cup {<<h.edges[<<z[1][1], z[2]>>][2], sul.delta[<<z[1][2], z[2]>>]>> :
                       z \in {y \in X \X Alphabet :
                                 <<y[1][1], y[2]>> \in DOMAIN h.edges}}
    IN  IF Y = X THEN X ELSE PairClosure(h, Y)

\* h and the SUL give the same output word on every input word
SameBehaviour(h) ==
    \A p \in PairClosure(h, {<<h.init, 1>>}) : \A x \in Alphabet :
        /\ <<p[1], x>> \in DOMAIN h.edges
        /\ h.edges[<<p[1], x>>][1] = sul.lam[<<p[2], x>>]

\* the states of the SUL reachable from its initial state
RECURSIVE SulClosure(_)
SulClosure(X) ==
    LET Y == X \cup {sul.delta[<<q, x>>] : q \in X, x \in Alphabet}
    IN  IF Y = X THEN X ELSE SulClosure(Y)

\* number of states of the minimal Mealy machine equivalent to the SUL: the
\* reachable states up to equality of their outputs on all words (two states
\* of an n-state machine that differ do so on a word shorter than n)
MinStates ==
    Cardinality({[w \in Words(Alphabet, MaxSulStates) |-> SulOutputs(sul, q, w)] :
                    q \in SulClosure({1})})

Row(s) == RowOver(s, E)

-----------------------------------------------------------------------------
(* TTTMealyLearner: the access-sequence dict, the discrimination tree *)

\* a State object is known by the number in its name, State("s3") is 3;
\* NoState stands for Python's None where a state is expected
NoState == 0 - 1

\* a Python dict as the list of its items in insertion order
HasKey(d, k) == \E i \in 1 .. Len(d) : d[i].key = k

GetItem(d, k) == d[CHOOSE i \in 1 .. Len(d) : d[i].key = k].val

SetItem(d, k, v) ==
    IF HasKey(d, k)
    THEN [i \in 1 .. Len(d) |->
             IF d[i].key = k THEN [key |-> k, val |-> v] ELSE d[i]]
    ELSE Append(d, [key |-> k, val |-> v])

Values(d) == {d[i].val : i \in 1 .. Len(d)}

\* DTree.createLeaf(state), DTree.createInner(suffix, temporary)
createLeaf(q) ==
    [isLeaf |-> TRUE, state |-> q, suffix |-> <<>>, temporary |-> FALSE]

createInner(v, t) ==
    [isLeaf |-> FALSE, state |-> NoState, suffix |-> v, temporary |-> t]

\* node.add(response, child) for the node at path p
AddChild(tree, p, response, child) == Put(tree, Append(p, response), child)

\* DTree.getLeaf(state): the path of the leaf that holds the state
getLeaf(tree, q) ==
    CHOOSE p \in DOMAIN tree : tree[p].isLeaf /\ tree[p].state = q

\* TTTAbstractLearner.query
ttt_query(w) == MemberQuery(w)

\* the TTT learner's state threaded through sift and process_counterexample
TCur == [S |-> tttS, DTree |-> DTree, err |-> FALSE]

\* sift, lines 15-27: the walk from the node at path cur
RECURSIVE SiftWalk(_, _, _, _)
SiftWalk(tree, sequence, cur, response) ==
    IF tree[cur].isLeaf
    THEN [isNone |-> FALSE, cur |-> cur, prev |-> cur, response |-> response]
    ELSE LET seq == sequence \o tree[cur].suffix
             resp == ttt_query(seq)
         IN  IF Append(cur, resp) \in DOMAIN tree
             THEN SiftWalk(tree, sequence, Append(cur, resp), resp)
             ELSE [isNone |-> TRUE, cur |-> cur, prev |-> cur,
                   response |-> resp]

\* sift, line 40: the new leaf is hung under the node the walk left
SiftAttachNowhere(tree, prev, response, node) == tree

SiftAttachRoot(tree, prev, response, node) ==
    AddChild(tree, <<>>, response, node)

SiftAttach(tree, prev, response, node) == AddChild(tree, prev, response, node)

\* sift: [st, v], v the state returned; a failed assert sets err
sift(st, sequence) ==
    LET w == SiftWalk(st.DTree, sequence, <<>>, None)
        new_state == Len(st.S)
        st1 == [st EXCEPT !.S = SetItem(@, sequence, new_state)]
    IN  IF ~w.isNone THEN [st |-> st, v |-> st.DTree[w.cur].state]
        ELSE IF HasKey(st.S, sequence)
        THEN [st |-> [st EXCEPT !.err = TRUE], v |-> NoState]
        ELSE IF w.response = None
        THEN [st |-> [st1 EXCEPT !.err = TRUE], v |-> NoState]
        ELSE [st |-> [st1 EXCEPT !.DTree =
                         SiftAttach(@, w.prev, w.response,
                                    createLeaf(new_state))],
              v |-> new_state]

\* construct_hypothesis, lines 77-83: the spanning-tree edges; a KeyError
\* gives NoState as the source of the edge
RECURSIVE SpanningEdges(_, _, _)
SpanningEdges(d, e, i) ==
    IF i > Len(d) THEN e
    ELSE LET access_seq == d[i].key
             ancestor_acc_seq == SubSeq(access_seq, 1, Len(access_seq) - 1)
             ancestor_state == IF HasKey(d, ancestor_acc_seq)
                               THEN GetItem(d, ancestor_acc_seq) ELSE NoState
             a == access_seq[Len(access_seq)]
             output == ttt_query(Append(ancestor_acc_seq, a))
         IN  IF Len(access_seq) > 0
             THEN SpanningEdges(d, Put(e, <<ancestor_state, a>>,
                                       <<output, d[i].val>>), i + 1)
             ELSE SpanningEdges(d, e, i + 1)

\* MealyMachine(initial_state): the machine of the State objects
MealyMachineOf(d, e) ==
    [init |-> GetItem(d, <<>>), states |-> Values(d), edges |-> e]

\* the state a machine with edges e reaches from q on w
RECURSIVE HypRun(_, _, _)
HypRun(e, q, w) ==
    IF w = <<>> THEN q
    ELSE IF <<q, Head(w)>> \notin DOMAIN e THEN NoState
    ELSE HypRun(e, e[<<q, Head(w)>>][2], Tail(w))

\* get_state_from_sequence(w): the state the hypothesis reaches on w
get_state_from_sequence(w) == HypRun(edges, GetItem(tttS, <<>>), w)

\* get_access_sequence_from_state(q)
get_access_sequence_from_state(q) ==
    tttS[CHOOSE i \in 1 .. Len(tttS) : tttS[i].val = q].key

\* get_access_sequence(w)
get_access_sequence(w) ==
    get_access_sequence_from_state(get_state_from_sequence(w))

\* the i-th answer of the decomposition of w: the membership answer to the
\* access sequence of the state the hypothesis reaches on w[0:i], then w[i:]
Alpha(w, i) ==
    ttt_query(get_access_sequence(Prefix(w, i)) \o SubSeq(w, i + 1, Len(w)))

\* decompose(w): the split points (u, a, v) a search strategy can return,
\* those at which the two readings of u.a are told apart by v
Decompositions(w) ==
    {<<Prefix(w, i), <<w[i + 1]>>, SubSeq(w, i + 2, Len(w))>> :
        i \in {j \in 0 .. (Len(w) - 1) : Alpha(w, j) # Alpha(w, j + 1)}}

\* process_counterexample, line 112: the suffix of the new inner node
InnerSuffixU(u, a, v) == u

InnerSuffix(u, a, v) == v

\* process_counterexample, line 129: the branch the old leaf is hung under
OldLeafBranchNew(response_q_old, response_q_new) == response_q_new

OldLeafBranch(response_q_old, response_q_new) == response_q_old

\* process_counterexample for the split dec = (u, a, v): the learner's state
\* after it; a failed assert sets err and leaves what was done before it
process_counterexample(st, dec) ==
    LET u == dec[1]
        a == dec[2]
        v == dec[3]
        q_old_state == get_state_from_sequence(u \o a)
        q_old_acc_seq == get_access_sequence_from_state(q_old_state)
        q_new_acc_seq == get_access_sequence(u) \o a
        q_new_state == Len(st.S)
        st1 == [st EXCEPT !.S = SetItem(@, q_new_acc_seq, q_new_state)]
        q_old_leaf == getLeaf(st.DTree, q_old_state)
        new_inner == createInner(InnerSuffix(u, a, v), TRUE)
        tree1 == [st.DTree EXCEPT ![q_old_leaf] = new_inner]
        response_q_old == ttt_query(q_old_acc_seq \o v)
        response_q_new == ttt_query(q_new_acc_seq \o v)
        q_new_leaf == createLeaf(q_new_state)
        tree2 == AddChild(tree1, q_old_leaf, response_q_new, q_new_leaf)
        tree3 == AddChild(tree2, q_old_leaf,
                          OldLeafBranch(response_q_old, response_q_new),
                          st.DTree[q_old_leaf])
    IN  IF HasKey(st.S, q_new_acc_seq) THEN [st EXCEPT !.err = TRUE]
        ELSE IF response_q_new = response_q_old
        THEN [st1 EXCEPT !.DTree = tree1, !.err = TRUE]
        ELSE [st1 EXCEPT !.DTree = tree3]

\* longest counterexample the teacher returns to the TTT learner
TttMaxCexLen == 2 * MaxSulStates

\* MealyMachine.process_input of hypothesis h: the last output
HypOut(h, w) ==
    LET o == HypOutputs(h, h.init, w)
    IN  IF o = <<>> THEN None ELSE o[Len(o)]

\* the words of length k on which the last output of h is not the SUL's
CexOfLen(h, k) ==
    {w \in WordsOfLen(Alphabet, k) : HypOut(h, w) # SulOut(sul, w)}

\* the length of the shortest such word, from k on; 0 when there is none
RECURSIVE ShortestCexLen(_, _)
ShortestCexLen(h, k) ==
    IF k > TttMaxCexLen THEN 0
    ELSE IF CexOfLen(h, k) # {} THEN k
    ELSE ShortestCexLen(h, k + 1)

\* the words a sound teacher may return for h when an answer is the last
\* output of the word: those at most TttCexSlack longer than the shortest
FinalCounterexamples(h) ==
    LET m == ShortestCexLen(h, 1)
    IN  IF m = 0 THEN {}
        ELSE UNION {CexOfLen(h, k) :
                       k \in {j \in m .. (m + TttCexSlack) : j <= TttMaxCexLen}}

\* Teacher.equivalence_query on a TTT hypothesis
TttEquivalenceQuery(h) ==
    LET c == FinalCounterexamples(h)
    IN  IF c = {} THEN {<<TRUE, NoWord>>} ELSE {<<FALSE, w>> : w \in c}

\* TTTMealyLearner.__init__ and the tree TTTAbstractLearner starts with: a
\* root with the empty suffix and the leaf of s0 under the answer to ()
TTTInit ==
    /\ tttS = <<[key |-> <<>>, val |-> 0]>>
    /\ edges = EmptyDict
    /\ DTree = AddChild(Put(EmptyDict, <<>>, createInner(<<>>, FALSE)),
                        <<>>, ttt_query(<<>>), createLeaf(0))
    /\ tpc = "construct"
    /\ items = <<>>
    /\ idx = 0
    /\ nSeen = 0
    /\ tttHypothesis = NoHyp
    /\ tttCounterexample = NoWord

\* construct_hypothesis, lines 52-62: entry, and the snapshot of the first pass
ConstructHypothesis ==
    /\ tpc = "construct"
    /\ nSeen' = Len(tttS)
    /\ items' = tttS
    /\ idx' = 1
    /\ tpc' = "pass"
    /\ UNCHANGED <<sul, lstarVars, tttS, edges, DTree, orderA, tttHypothesis,
                   tttCounterexample>>

\* construct_hypothesis, lines 63-66: one sift and the edge it gives
SiftTransition ==
    /\ tpc = "pass"
    /\ idx <= Len(items) * Len(orderA)
    /\ LET item == items[((idx - 1) \div Len(orderA)) + 1]
           a == orderA[((idx - 1) % Len(orderA)) + 1]
           r == sift(TCur, item.key \o a)
           output == ttt_query(item.key \o a)
       IN  /\ tttS' = r.st.S
           /\ DTree' = r.st.DTree
           /\ edges' = IF r.st.err THEN edges
                       ELSE Put(edges, <<item.val, a[1]>>, <<output, r.v>>)
           /\ tpc' = IF r.st.err THEN "error" ELSE "pass"
    /\ idx' = idx + 1
    /\ UNCHANGED <<sul, lstarVars, orderA, items, nSeen, tttHypothesis,
                   tttCounterexample>>

\* construct_hypothesis, line 71: items_added = n != n2
ItemsAddedNever(n, n2) == FALSE

ItemsAdded(n, n2) == n # n2

\* construct_hypothesis, lines 69-74 and 60-62: the end of a pass
EndPass ==
    /\ tpc = "pass"
    /\ idx > Len(items) * Len(orderA)
    /\ nSeen' = Len(tttS)
    /\ IF ItemsAdded(nSeen, Len(tttS))
       THEN items' = tttS /\ idx' = 1 /\ tpc' = "pass"
       ELSE items' = items /\ idx' = idx /\ tpc' = "span"
    /\ UNCHANGED <<sul, lstarVars, tttS, edges, DTree, orderA, tttHypothesis,
                   tttCounterexample>>

\* construct_hypothesis, lines 77-88
SpanningTree ==
    /\ tpc = "span"
    /\ edges' = SpanningEdges(tttS, edges, 1)
    /\ tttHypothesis' = MealyMachineOf(tttS, edges')
    /\ tpc' = IF \E z \in DOMAIN edges' : z[1] = NoState
              THEN "error" ELSE "eq"
    /\ UNCHANGED <<sul, lstarVars, tttS, DTree, orderA, items, idx, nSeen,
                   tttCounterexample>>

\* run of the TTT learner: the teacher accepts the hypothesis
TTTReturn ==
    /\ tpc = "eq"
    /\ <<TRUE, NoWord>> \in TttEquivalenceQuery(tttHypothesis)
    /\ tpc' = "done"
    /\ UNCHANGED <<sul, lstarVars, tttS, edges, DTree, orderA, items, idx,
                   nSeen, tttHypothesis, tttCounterexample>>

\* run of the TTT learner: the teacher answers with a counterexample, which
\* is decomposed and used to split a leaf
ProcessCounterexample ==
    /\ tpc = "eq"
    /\ \E ans \in TttEquivalenceQuery(tttHypothesis) :
          /\ ~ans[1]
          /\ tttCounterexample' = ans[2]
          /\ IF Decompositions(ans[2]) = {}
             THEN tpc' = "error" /\ UNCHANGED <<tttS, DTree>>
             ELSE \E dec \in Decompositions(ans[2]) :
                     LET st == process_counterexample(TCur, dec)
                     IN  /\ tttS' = st.S
                         /\ DTree' = st.DTree
                         /\ tpc' = IF st.err THEN "error" ELSE "construct"
    /\ UNCHANGED <<sul, lstarVars, edges, orderA, items, idx, nSeen,
                   tttHypothesis>>

-----------------------------------------------------------------------------
(* Specifications *)

\* the orders in which a set can be iterated
Orders(X) ==
    {f \in [1 .. Cardinality(X) -> X] : {f[i] : i \in 1 .. Cardinality(X)} = X}

\* the L* learner constructed on a teacher for one of the systems
Init ==
    /\ sul \in Suls
    /\ LStarInit
    /\ TTTInit
    /\ orderA = IterOrder(A)

Next == Check \/ Step \/ Build \/ Return \/ Refine

Spec == Init /\ [][Next]_vars

\* the positions of run() at which Next is enabled
Running == {"check", "step", "build", "eq"}

\* the thread of run() is never suspended for ever: weak fairness of Next,
\* written out for the positions at which Next is enabled
FairSpec == Spec /\ (([]<><<Next>>_vars) \/ (<>[](pc \notin Running)))

\* the machines with n states over {a, b} and three outputs in which a walks
\* through the states with output "0" and b stays, with any output
Tripods(n) ==
    {[sym |-> SymsOf(2), states |-> 1 .. n, delta |-> d, lam |-> l] :
        d \in {f \in [(1 .. n) \X SymsOf(2) -> 1 .. n] :
                  /\ \A q \in 1 .. (n - 1) : f[<<q, "a">>] = q + 1
                  /\ \A q \in 1 .. n : f[<<q, "b">>] = q},
        l \in {g \in [(1 .. n) \X SymsOf(2) -> Out \cup {"2"}] :
                  \A q \in 1 .. n : g[<<q, "a">>] = "0"}}

\* the systems under learning that TTTStart draws
TttSuls == Suls \cup Tripods(MaxSulStates)

\* the prefix-closed sets of words no longer than MaxTableLen, and the sets
\* of suffixes, that a restored table can hold
TablesS ==
    {X \in SUBSET Words(Alphabet, MaxTableLen) :
        /\ <<>> \in X
        /\ \A w \in X \ {<<>>} : Prefix(w, Len(w) - 1) \in X}

TablesE == {A, A \cup {<<"a", "a">>}}

\* a learner whose table was restored by load_checkpoint (lines 149-154) and
\* on which build_dfa is about to be called
LoadedInit ==
    /\ sul \in Suls
    /\ S \in TablesS
    /\ E \in TablesE
    /\ cS = Cardinality(S)
    /\ cE = Cardinality(E)
    /\ T = EmptyDict
    /\ watch = EmptyDict
    /\ mem = EmptyDict
    /\ pc = "build"
    /\ hypothesis = NoHyp
    /\ equivalent = FALSE
    /\ counterexample = NoWord
    /\ returned = NoHyp
    /\ stale = FALSE
    /\ TTTInit
    /\ orderA = IterOrder(A)

BuildNext == Build

BuildSpec == LoadedInit /\ [][BuildNext]_vars

\* the TTT learner constructed on a teacher for one of the systems
TTTStart ==
    /\ sul \in TttSuls
    /\ LStarInit
    /\ TTTInit
    /\ orderA \in Orders(A)

TTTNext ==
    \/ ConstructHypothesis
    \/ SiftTransition
    \/ EndPass
    \/ SpanningTree
    \/ TTTReturn
    \/ ProcessCounterexample

TTTSpec == TTTStart /\ [][TTTNext]_vars

-----------------------------------------------------------------------------
(* Claims *)

\* C1: run returns only after an equivalence query answered true, it returns
\* the hypothesis submitted in that query, and (the oracle being sound and
\* complete) the returned machine gives the SUL's output on every input word.
C1_ReturnsAcceptedHypothesis ==
    /\ returned # NoHyp => pc = "done"
    /\ pc = "done" =>
          /\ equivalent = TRUE
          /\ returned = hypothesis
          /\ Counterexamples(returned) = {}
          /\ SameBehaviour(returned)

C1_Witness ==
    /\ pc = "done"
    /\ E # A
    /\ Cardinality(HypStates(returned)) = 3

\* C2: with a finite deterministic SUL and a sound and complete oracle, the
\* inner loop of run always leaves for build_dfa and run eventually returns.
C2_Terminates ==
    /\ [](pc = "step" => <>(pc = "build"))
    /\ <>(pc = "done")

C2_Witness ==
    /\ pc = "done"
    /\ Cardinality(E) > Cardinality(A)
    /\ Cardinality(S) > 4

\* C3: the machine run returns has as many states as the minimal Mealy
\* machine equivalent to the SUL.
C3_Minimal ==
    pc = "done" => Cardinality(HypStates(returned)) = MinStates

C3_Witness ==
    /\ pc = "done"
    /\ MinStates = 3
    /\ Cardinality(S) > 3

\* C4: whenever run is about to call build_dfa, and while the hypothesis built
\* is with the teacher, the table is closed and consistent on the current S
\* and E (recomputed without the caches).
C4_BuildOnClosedConsistent ==
    pc \in {"build", "eq"} => TableClosed(S, E) /\ TableConsistent(S, E)

C4_Witness ==
    /\ pc = "build"
    /\ hypothesis # NoHyp
    /\ E # A

\* C5: the machine build_dfa returns for a closed and consistent table has
\* exactly the distinct rows of S as its states, all reachable from the
\* initial state, and its initial state is the row of the empty word.
C5_StatesAreRows ==
    (pc = "eq" /\ TableClosed(S, E) /\ TableConsistent(S, E)) =>
        /\ HypStates(hypothesis) = {Row(s) : s \in S}
        /\ Cardinality(HypStates(hypothesis)) = Cardinality({Row(s) : s \in S})
        /\ hypothesis.init = Row(<<>>)

C5_Witness ==
    /\ pc = "eq"
    /\ Cardinality({Row(s) : s \in S}) = 3
    /\ Cardinality(S) > 3

\* C6: S always contains the empty word and with every non-empty word the
\* word without its last symbol.
C6_PrefixClosed ==
    /\ <<>> \in S
    /\ \A w \in S : w # <<>> => Prefix(w, Len(w) - 1) \in S

C6_Witness ==
    /\ pc = "check"
    /\ counterexample # NoWord
    /\ \E w \in S : Len(w) = MaxCexLen

\* C7: no memoized call (_SA, _SUSA, _get_row, _is_closed, _is_consistent) has
\* returned a value different from the recomputation on the S and E of that
\* moment, and a call made now returns the recomputed value.
C7_MemoTransparent ==
    /\ ~stale
    /\ SA(Cur).v = SAOf(S)
    /\ SUSA(Cur).v = S \cup SAOf(S)
    /\ \A w \in S \cup SAOf(S) : GetRow(Cur, w).v = Row(w)
    /\ IsClosed(Cur).v = TableClosed(S, E)
    /\ IsConsistent(Cur).v = TableConsistent(S, E)

C7_Witness ==
    /\ "_is_consistent" \in DOMAIN watch
    /\ watch["_is_consistent"] # <<cS, cE>>
    /\ mem["_is_consistent"] # EmptyDict
    /\ mem["_is_consistent"][<<>>] # TableConsistent(S, E)
    /\ E # A

\* C8: integrating the counterexample w adds to S exactly the prefixes of w
\* of length 1..|w| and leaves E as it is.
C8_Integration ==
    [][(pc = "eq" /\ pc' = "check") =>
          /\ S' = S \cup {Prefix(counterexample', i) :
                            i \in 1 .. Len(counterexample')}
          /\ E' = E]_vars

C8_Witness ==
    /\ pc = "check"
    /\ hypothesis # NoHyp
    /\ ~equivalent
    /\ counterexample # NoWord
    /\ watch["_is_closed"][1] + Len(counterexample) = cS
    /\ Len(counterexample) = MaxCexLen
    /\ Cardinality(S) = Len(counterexample) + 1

\* C9: the hypothesis built after a counterexample has strictly more states
\* than the hypothesis the counterexample refuted.
C9_Progress ==
    [][(pc = "build" /\ hypothesis # NoHyp) =>
          Cardinality(HypStates(hypothesis')) > Cardinality(HypStates(hypothesis))]_vars

C9_Witness ==
    /\ pc = "eq"
    /\ counterexample # NoWord
    /\ Cardinality(HypStates(hypothesis)) = 3

\* the leaves of the discrimination tree: the paths of the leaf nodes
Leaves == {p \in DOMAIN DTree : DTree[p].isLeaf}

\* C10: after every completed sift, construct_hypothesis and
\* process_counterexample the states of the access-sequence map and the leaves
\* of the discrimination tree correspond one to one: every leaf hangs in the
\* tree and holds a state of S, no two keys of S hold the same state, and
\* every state of S is held by exactly one leaf.
C10_LeafStateBijection ==
    tpc # "error" =>
        /\ \A p \in DOMAIN DTree \ {<<>>} :
              /\ Prefix(p, Len(p) - 1) \in DOMAIN DTree
              /\ ~DTree[Prefix(p, Len(p) - 1)].isLeaf
        /\ \A p \in Leaves : DTree[p].state \in Values(tttS)
        /\ Cardinality(Values(tttS)) = Len(tttS)
        /\ \A q \in Values(tttS) :
              Cardinality({p \in Leaves : DTree[p].state = q}) = 1

C10_Witness ==
    /\ tpc = "pass"
    /\ tttCounterexample # NoWord
    /\ \E p \in DOMAIN DTree : DTree[p].temporary
    /\ Len(tttS) > Len(items)
    /\ Len(tttS) >= 5

\* the inner node at path p is an ancestor of the leaf at path l
Above(p, l) == Len(p) < Len(l) /\ Prefix(l, Len(p)) = p

\* C11: in every discrimination tree the learner reaches, each leaf lies,
\* under each inner node above it, in the child keyed by the membership answer
\* to the access sequence of the leaf's state followed by the suffix of that
\* node; so two states in different children of an inner node labelled v get
\* different answers on access.v.
C11_Discriminates ==
    tpc # "error" =>
        /\ \A l \in Leaves : \A i \in 1 .. Len(l) :
              l[i] = ttt_query(get_access_sequence_from_state(DTree[l].state)
                               \o DTree[Prefix(l, i - 1)].suffix)
        /\ \A l1 \in Leaves, l2 \in Leaves :
              \A p \in DOMAIN DTree :
                  (Above(p, l1) /\ Above(p, l2)
                   /\ l1[Len(p) + 1] # l2[Len(p) + 1]) =>
                      ttt_query(get_access_sequence_from_state(DTree[l1].state)
                                \o DTree[p].suffix)
                      # ttt_query(get_access_sequence_from_state(DTree[l2].state)
                                  \o DTree[p].suffix)

\* a sift has hung a third leaf under the inner node of a leaf split
C11_Witness ==
    /\ tpc \in {"pass", "span", "eq"}
    /\ \E p \in DOMAIN DTree :
          /\ DTree[p].temporary
          /\ Cardinality({l \in Leaves : Len(l) = Len(p) + 1 /\ Above(p, l)}) >= 3

\* C12: after any sequence of sifts and leaf splits no two inner nodes on a
\* path from the root to a leaf carry the same suffix.
C12_NoRepeatedSuffix ==
    tpc # "error" =>
        \A l \in Leaves : \A i \in 0 .. (Len(l) - 1), j \in 0 .. (Len(l) - 1) :
            i # j => DTree[Prefix(l, i)].suffix # DTree[Prefix(l, j)].suffix

\* a path with three inner nodes, after a split and a construction
C12_Witness ==
    /\ tpc = "eq"
    /\ tttCounterexample # NoWord
    /\ \E l \in Leaves :
          Cardinality({DTree[Prefix(l, i)].suffix : i \in 0 .. (Len(l) - 1)}) >= 3

\* scenario 2: the SUL over {a} whose outputs alternate 0, 1, 0, 1, ...
Toggle ==
    [sym |-> {"a"}, states |-> 1 .. 2,
     delta |-> [z \in (1 .. 2) \X {"a"} |-> 3 - z[1]],
     lam |-> [z \in (1 .. 2) \X {"a"} |-> IF z[1] = 1 THEN "0" ELSE "1"]]

\* machine h has exactly two states; its initial state goes on a to the
\* second state with output o1 and the second goes back with output o2
TwoStateCycle(h, o1, o2) ==
    /\ h # NoHyp
    /\ Cardinality(h.states) = 2
    /\ HypStates(h) = h.states
    /\ DOMAIN h.edges = h.states \X {"a"}
    /\ h.edges[<<h.init, "a">>][1] = o1
    /\ h.edges[<<h.init, "a">>][2] # h.init
    /\ h.edges[<<h.edges[<<h.init, "a">>][2], "a">>] = <<o2, h.init>>

\* C13 as stated: for the toggle SUL run returns a two-state machine whose
\* initial state answers a with 1 and whose second state answers a with 0.
C13_ToggleAsStated ==
    (sul = Toggle /\ pc = "done") => TwoStateCycle(returned, "1", "0")

\* C13, amended: for the toggle SUL run returns, and the machine it returns
\* has exactly two states, the initial state going on a to the second state
\* with output 0 (the first output of the SUL) and the second state going
\* back to the initial state with output 1.
C13_Toggle ==
    (sul = Toggle) ~> (pc = "done" /\ TwoStateCycle(returned, "0", "1"))

C13_Witness ==
    /\ sul = Toggle
    /\ pc = "done"
    /\ returned = hypothesis
    /\ Cardinality(S) = 2

\* S.A as step enumerates it: product(self.S, self.A), line 299
StepSA == {s \o a : s \in S, a \in A}

\* C14 as stated: a step on a table that is not closed adds exactly one word
\* s.a to S, one whose row is the row of no element of S.
C14_ClosingAddsOne ==
    [][(Step /\ ~TableClosed(S, E)) =>
          \E t \in StepSA \ S :
              /\ S' = S \cup {t}
              /\ \A s \in S : RowOver(t, E') # RowOver(s, E')]_vars

\* C14, amended: a step on a table that is not closed adds to S every word
\* s.a, with s in S as it was when the step began and a in A, whose row is the
\* row of no element that S held when the step began, at least one word and
\* possibly several; it adds no other word to S.
C14_ClosingAddsAll ==
    [][(Step /\ ~TableClosed(S, E)) =>
          /\ S' = S \cup {t \in StepSA :
                              \A s \in S : RowOver(t, E') # RowOver(s, E')}
          /\ S' # S]_vars

\* the first step has added both a and b
C14_Witness ==
    /\ pc = "check"
    /\ counterexample = NoWord
    /\ E = A
    /\ S = {<<>>, <<"a">>, <<"b">>}

\* C15: a step on an inconsistent table adds to E exactly one word a.e, with
\* a in A and e in E, for which two different words of S with equal rows get
\* different answers on s1.a.e and s2.a.e; the word was not in E, and the rows
\* of the two words differ afterwards.
C15_ConsistencyAddsOne ==
    [][(Step /\ ~TableConsistent(S, E)) =>
          \E a \in A, e \in E :
              /\ a \o e \notin E
              /\ E' = E \cup {a \o e}
              /\ Cardinality(E') = Cardinality(E) + 1
              /\ \E s1 \in S, s2 \in S :
                    /\ s1 # s2
                    /\ RowOver(s1, E) = RowOver(s2, E)
                    /\ query(s1 \o a \o e) # query(s2 \o a \o e)
                    /\ RowOver(s1, E') # RowOver(s2, E')]_vars

\* a step has added a word to E after a counterexample made the table
\* inconsistent
C15_Witness ==
    /\ pc = "check"
    /\ counterexample # NoWord
    /\ \E e \in E : Len(e) >= 2

\* two words of S with the same row whose edges on some symbol differ in
\* target row or output
ConflictingEdges ==
    \E s1 \in S, s2 \in S : \E a \in A :
        /\ Row(s1) = Row(s2)
        /\ <<Row(s1 \o a), query(s1 \o a)>> # <<Row(s2 \o a), query(s2 \o a)>>

\* C16: build_dfa called on a table in which two words of S with the same row
\* give conflicting edges for some symbol fails with an error and returns no
\* machine.
C16_RefusesConflicts ==
    ConflictingEdges => (pc # "eq" /\ hypothesis = NoHyp)

\* C17: once closedness has been evaluated for the current S and E (run is
\* at step, at build_dfa or at the equivalence query), every row of S and S.A
\* has been looked up, and T holds the answer to s.e for every s of S and S.A
\* and every e of E.
C17_TableTotal ==
    pc \in {"step", "build", "eq"} =>
        \A s \in S \cup SAOf(S) : \A e \in E :
            /\ (s \o e) \in DOMAIN T
            /\ T[s \o e] = query(s \o e)

\* C18: the hypothesis build_dfa produces from a closed and consistent table
\* has the rows of S as states and exactly one edge for each state and each
\* symbol of A; the edge of row(s) on a goes to row(s.a) with output
\* query(s.a), whichever s of S with that row is taken.
C18_TotalDeterministic ==
    (pc = "eq" /\ TableClosed(S, E) /\ TableConsistent(S, E)) =>
        /\ hypothesis.states = {Row(s) : s \in S}
        /\ hypothesis.init = Row(<<>>)
        /\ DOMAIN hypothesis.edges = hypothesis.states \X Alphabet
        /\ \A s \in S : \A a \in A :
              hypothesis.edges[<<Row(s), a[1]>>] = <<query(s \o a), Row(s \o a)>>

\* a hypothesis over two symbols with several states, built from a table in
\* which two words of S have the same row
C18_Witness ==
    /\ pc = "eq"
    /\ TableClosed(S, E)
    /\ TableConsistent(S, E)
    /\ Cardinality(Alphabet) = 2
    /\ Cardinality(hypothesis.states) >= 2
    /\ \E s1 \in S, s2 \in S : s1 # s2 /\ Row(s1) = Row(s2)

\* C19: when construct_hypothesis has returned, its last pass went over every
\* item of S and created no state; every state of S, those discovered during
\* the construction included, has exactly one edge for each symbol of A, to a
\* state of S; and for every non-empty access sequence u.a of S the edge of
\* S[u] on a leads to S[u.a].
C19_HypothesisComplete ==
    tpc = "eq" =>
        /\ items = tttS
        /\ nSeen = Len(tttS)
        /\ idx = Len(items) * Len(orderA) + 1
        /\ tttHypothesis = MealyMachineOf(tttS, edges)
        /\ DOMAIN edges = Values(tttS) \X Alphabet
        /\ \A z \in DOMAIN edges : edges[z][2] \in Values(tttS)
        /\ \A i \in 1 .. Len(tttS) :
              tttS[i].key # <<>> =>
                  LET u == Prefix(tttS[i].key, Len(tttS[i].key) - 1)
                      a == tttS[i].key[Len(tttS[i].key)]
                  IN  /\ HasKey(tttS, u)
                      /\ edges[<<GetItem(tttS, u), a>>][2] = tttS[i].val

\* the first construction has returned, with states that its own sifts
\* discovered
C19_Witness ==
    /\ tpc = "eq"
    /\ tttCounterexample = NoWord
    /\ Len(tttS) >= 3
    /\ Cardinality(Alphabet) = 2

\* the word the next sift of the running pass is called on
NextSifted ==
    items[((idx - 1) \div Len(orderA)) + 1].key
        \o orderA[((idx - 1) % Len(orderA)) + 1]

\* C20: a word for which sift discovers a state is not a key of S, the word
\* access_sequence(u).a for which process_counterexample creates a state is
\* not a key of S (neither assertion fails), and sifting a key w of S returns
\* S[w] and creates no state.
C20_Fresh ==
    /\ (tpc = "pass" /\ idx <= Len(items) * Len(orderA)
           /\ SiftWalk(DTree, NextSifted, <<>>, None).isNone)
          => ~HasKey(tttS, NextSifted)
    /\ tpc = "eq" =>
          \A ans \in TttEquivalenceQuery(tttHypothesis) :
              ~ans[1] =>
                  \A dec \in Decompositions(ans[2]) :
                      ~HasKey(tttS, get_access_sequence(dec[1]) \o dec[2])
    /\ tpc # "error" =>
          \A i \in 1 .. Len(tttS) :
              sift(TCur, tttS[i].key) = [st |-> TCur, v |-> tttS[i].val]

\* process_counterexample has just created a state, after sifts had
\* discovered others
C20_Witness ==
    /\ tpc = "construct"
    /\ tttCounterexample # NoWord
    /\ Len(tttS) >= 4
    /\ \E i \in 1 .. Len(tttS) : Len(tttS[i].key) >= 2

\* the children of the node at path p in tree
ChildrenOf(tree, p) ==
    {c \in DOMAIN tree : Len(c) = Len(p) + 1 /\ Prefix(c, Len(p)) = p}

====
